---- MODULE Spec2Model ----
(***************************************************************************)
(* Model of abcross/common.py: the Architecture enumeration and its        *)
(* derived names, the binfmt_misc availability check have_qemu(), and the  *)
(* process helpers privileged_call() / regular_call().                     *)
(*                                                                         *)
(* Python strings are TLA+ strings; TLC evaluates \o, Len and SubSeq on    *)
(* them, so formatting, stripping and the regular expression are computed  *)
(* character by character.                                                 *)
(***************************************************************************)
EXTENDS Integers, Sequences, FiniteSets, TLC

VARIABLES
    machine,      \* platform.machine() of the host
    procfs,       \* the one binfmt_misc registration file of the host
    links,        \* symbolic links of the host file system: {<<from, to>>}
    euid,         \* os.geteuid()
    execs,        \* executables the process launcher can find
    pc,           \* position of the call in progress
    op,           \* function being called
    argv,         \* argument of privileged_call / regular_call
    interactive,  \* argument of privileged_call / regular_call
    need_sudo,    \* local of privileged_call
    call_args,    \* local of privileged_call
    log,          \* records emitted through logger, in order
    launched,     \* argument vectors handed to subprocess.run, in order
    child,        \* what the launched process did: exit status and output
    result,       \* the CompletedProcess of subprocess.run
    ret           \* outcome of the last call: a return value or a raise

vars == <<machine, procfs, links, euid, execs, pc, op, argv, interactive,
          need_sudo, call_args, log, launched, child, result, ret>>

\* Bounds of the model.
MaxLines == 2
MaxArgv == 2

\* Python's None, and the outcome records of a call.
None == "<None>"
ValueError == "<ValueError>"
NoCall == [kind |-> "none", op |-> "none", self |-> "", value |-> None]
Return(f, a, v) == [kind |-> "return", op |-> f, self |-> a, value |-> v]
Raise(f, a, e) == [kind |-> "raise", op |-> f, self |-> a, value |-> e]

(***************************************************************************)
(* class Architecture(Enum)                                                *)
(***************************************************************************)
Architecture ==
    {"AMD64", "ARM64", "LOONGSON3", "POWERPC", "PPC64EL", "RISCV64",
     "MIPS64R6EL", "ARMV4", "ARMV6HF", "ARMV7HF", "M68K", "PPC64", "I486"}

\* Architecture.<member>.value
value(self) ==
    CASE self = "AMD64" -> "amd64"
      [] self = "ARM64" -> "arm64"
      [] self = "LOONGSON3" -> "loongson3"
      [] self = "POWERPC" -> "powerpc"
      [] self = "PPC64EL" -> "ppc64el"
      [] self = "RISCV64" -> "riscv64"
      [] self = "MIPS64R6EL" -> "mips64r6el"
      [] self = "ARMV4" -> "armv4"
      [] self = "ARMV6HF" -> "armv6hf"
      [] self = "ARMV7HF" -> "armv7hf"
      [] self = "M68K" -> "m68k"
      [] self = "PPC64" -> "ppc64"
      [] self = "I486" -> "i486"

\* qemu_arch with the I486 case lost: the variant falls to `case _`.
qemu_arch_unmapped(self) ==
    CASE self = "AMD64" -> "amd64"
      [] self = "ARM64" -> "aarch64"
      [] self = "LOONGSON3" -> "mips64el"
      [] self = "POWERPC" -> "ppc"
      [] self = "PPC64EL" -> "ppc64le"
      [] self = "RISCV64" -> "riscv64"
      [] self = "MIPS64R6EL" -> "mips64el"
      [] self \in {"ARMV4", "ARMV6HF", "ARMV7HF"} -> "arm"
      [] self = "M68K" -> "m68k"
      [] self = "PPC64" -> "ppc64"
      [] OTHER -> ValueError

\* qemu_arch with ARMV6HF dropped from the or-pattern and PPC64EL, POWERPC
\* left at their canonical names.
qemu_arch_canonical(self) ==
    CASE self = "AMD64" -> "amd64"
      [] self = "ARM64" -> "aarch64"
      [] self = "LOONGSON3" -> "mips64el"
      [] self = "POWERPC" -> "powerpc"
      [] self = "PPC64EL" -> "ppc64el"
      [] self = "RISCV64" -> "riscv64"
      [] self = "MIPS64R6EL" -> "mips64el"
      [] self \in {"ARMV4", "ARMV7HF"} -> "arm"
      [] self = "ARMV6HF" -> "armv6hf"
      [] self = "M68K" -> "m68k"
      [] self = "PPC64" -> "ppc64"
      [] self = "I486" -> "i386"
      [] OTHER -> ValueError

\* Architecture.qemu_arch: the match statement, `case _` raising ValueError.
qemu_arch(self) ==
    CASE self = "AMD64" -> "amd64"
      [] self = "ARM64" -> "aarch64"
      [] self = "LOONGSON3" -> "mips64el"
      [] self = "POWERPC" -> "ppc"
      [] self = "PPC64EL" -> "ppc64le"
      [] self = "RISCV64" -> "riscv64"
      [] self = "MIPS64R6EL" -> "mips64el"
      [] self \in {"ARMV4", "ARMV6HF", "ARMV7HF"} -> "arm"
      [] self = "M68K" -> "m68k"
      [] self = "PPC64" -> "ppc64"
      [] self = "I486" -> "i386"
      [] OTHER -> ValueError

\* Architecture.qemu_bin: the f-string; the ValueError of qemu_arch propagates.
qemu_bin(self) ==
    IF qemu_arch(self) = ValueError
    THEN ValueError
    ELSE "qemu-" \o qemu_arch(self) \o "-static"

\* match_current_arch guessing a MIPS variant for a mips64 host.
match_current_arch_guess(m) ==
    CASE m = "x86_64" -> "AMD64"
      [] m = "aarch64" -> "ARM64"
      [] m = "riscv64" -> "RISCV64"
      [] m = "ppc" -> "POWERPC"
      [] m = "ppc64le" -> "PPC64EL"
      [] m = "mips64" -> "LOONGSON3"
      [] OTHER -> None

\* Architecture.match_current_arch, on the value of platform.machine().
match_current_arch(m) ==
    CASE m = "x86_64" -> "AMD64"
      [] m = "aarch64" -> "ARM64"
      [] m = "riscv64" -> "RISCV64"
      [] m = "ppc" -> "POWERPC"
      [] m = "ppc64le" -> "PPC64EL"
      [] m = "mips64" -> None
      [] OTHER -> None

\* Architecture.standard_sysroot
standard_sysroot(self) == "/var/ab/cross-root/" \o value(self)

\* Values platform.machine() reports on hosts: the handled ones, mips64,
\* the machine strings of the retro targets, and unrelated ones.
Machines ==
    {"x86_64", "aarch64", "riscv64", "ppc", "ppc64le", "mips64",
     "armv4l", "armv6l", "armv7l", "m68k", "ppc64", "i486", "i686",
     "mips64el", "loongarch64", "s390x", ""}

(***************************************************************************)
(* String primitives used by have_qemu                                     *)
(***************************************************************************)
Char(s, i) == SubSeq(s, i, i)

\* Characters str.strip() removes.
Whitespace == {" ", "\t", "\n", "\r", "\f"}

\* str.strip(): drop leading and trailing whitespace.
strip(s) ==
    LET keep == {i \in 1..Len(s) : Char(s, i) \notin Whitespace}
    IN  IF keep = {}
        THEN ""
        ELSE LET lo == CHOOSE i \in keep : \A j \in keep : i <= j
                 hi == CHOOSE i \in keep : \A j \in keep : j <= i
             IN  SubSeq(s, lo, hi)

\* PurePath.name: the final component of a path.
name(p) ==
    LET slashes == {i \in 1..Len(p) : Char(p, i) = "/"}
    IN  IF slashes = {}
        THEN p
        ELSE LET last == CHOOSE i \in slashes : \A j \in slashes : j <= i
             IN  SubSeq(p, last + 1, Len(p))

\* PosixPath.resolve(): follow the symbolic links of the file system.
RECURSIVE resolve(_)
resolve(p) ==
    IF \E l \in links : l[1] = p
    THEN resolve((CHOOSE l \in links : l[1] = p)[2])
    ELSE p

NoMatch == "<NoMatch>"
InterpPrefix == "interpreter "

\* re.match(f"interpreter (?P<path>.+{base_name})", line).group("path"):
\* anchored at the start of the line only; `.+` is greedy, takes at least
\* one character and never a newline.  NoMatch when re.match returns None.
match_interp(base_name, line) ==
    LET n == Len(InterpPrefix)
        b == Len(base_name)
        ends == {e \in (n + 1 + b)..Len(line) :
                    /\ SubSeq(line, 1, n) = InterpPrefix
                    /\ SubSeq(line, e - b + 1, e) = base_name
                    /\ \A i \in (n + 1)..(e - b) : Char(line, i) # "\n"}
    IN  IF ends = {}
        THEN NoMatch
        ELSE LET e == CHOOSE x \in ends : \A y \in ends : y <= x
             IN  SubSeq(line, n + 1, e)

(***************************************************************************)
(* Architecture.have_qemu                                                  *)
(***************************************************************************)
binfmt_reg_name(self) == "/proc/sys/fs/binfmt_misc/qemu-" \o qemu_arch(self)

\* open(binfmt_reg_name, 'r'): FALSE when it raises OSError (the file is
\* missing or cannot be read).
can_open(file) == procfs.name = file /\ procfs.mode = "ok"

\* binfmt_reg.readlines(): the lines of the file, each with its terminator.
readlines(file) == procfs.lines

\* The body of have_qemu.  binfmt_reg_content[0] and binfmt_reg_content[1]
\* are list subscripts: past the end of the list they raise IndexError,
\* which no except clause of the function catches.
have_qemu(self) ==
    LET base_name == qemu_bin(self)
        binfmt_reg_name_ == binfmt_reg_name(self)
    IN  IF ~can_open(binfmt_reg_name_)
        THEN Return("have_qemu", self, None)
        ELSE LET binfmt_reg_content == readlines(binfmt_reg_name_)
             IN  IF Len(binfmt_reg_content) < 1
                 THEN Raise("have_qemu", self, "IndexError")
                 ELSE IF strip(binfmt_reg_content[1]) # "enabled"
                 THEN Return("have_qemu", self, None)
                 ELSE IF Len(binfmt_reg_content) < 2
                 THEN Raise("have_qemu", self, "IndexError")
                 ELSE LET path_interp ==
                              match_interp(base_name, binfmt_reg_content[2])
                      IN  IF path_interp = NoMatch
                          THEN Return("have_qemu", self, None)
                          ELSE IF name(resolve(path_interp)) # base_name
                          THEN Return("have_qemu", self, None)
                          ELSE Return("have_qemu", self, path_interp)

(***************************************************************************)
(* Hosts: what the registration file of one architecture and the file      *)
(* system can hold when have_qemu is called.                               *)
(***************************************************************************)
\* A binary that is not the expected interpreter of `self`.
other_bin(self) ==
    IF qemu_arch(self) = "arm" THEN "qemu-aarch64-static" ELSE "qemu-arm-static"

\* Lines a registration file of `self` can hold.
LineSet(self) ==
    {"enabled\n", "disabled\n", " enabled \n", "flags: F\n",
     "interpreter /usr/bin/" \o qemu_bin(self) \o "\n",
     "interpreter /usr/bin/" \o qemu_bin(self) \o "-old\n",
     "interpreter /opt/" \o qemu_bin(self) \o "\n",
     "interpreter /usr/bin/" \o other_bin(self) \o "\n"}

SeqsUpTo(S, n) == UNION {[1..k -> S] : k \in 0..n}

ProcfsStates(self) ==
    {[name |-> binfmt_reg_name(self), mode |-> m, lines |-> <<>>] :
        m \in {"missing", "unreadable"}}
    \cup {[name |-> binfmt_reg_name(self), mode |-> "ok", lines |-> ls] :
            ls \in SeqsUpTo(LineSet(self), MaxLines)}

\* /opt/<qemu_bin> is a regular file, a link to the same binary elsewhere,
\* or a link to another architecture's binary.
LinkStates(self) ==
    {{},
     {<<"/opt/" \o qemu_bin(self), "/usr/libexec/" \o qemu_bin(self)>>},
     {<<"/opt/" \o qemu_bin(self), "/usr/bin/" \o other_bin(self)>>}}

(***************************************************************************)
(* Specification of the Architecture lookups                               *)
(***************************************************************************)
NoProcfs == [name |-> "", mode |-> "missing", lines |-> <<>>]
NoResult == [stdout |-> None, stderr |-> None, returncode |-> 0]
NoChild == [status |-> 0, out |-> "", err |-> ""]

InitArch ==
    /\ machine \in Machines
    /\ procfs = NoProcfs
    /\ links = {}
    /\ euid = 0
    /\ execs = {}
    /\ pc = "idle"
    /\ op = "none"
    /\ argv = <<>>
    /\ interactive = FALSE
    /\ need_sudo = FALSE
    /\ call_args = <<>>
    /\ log = <<>>
    /\ launched = <<>>
    /\ child = NoChild
    /\ result = NoResult
    /\ ret = NoCall

\* What a call of a method that only computes a value leaves alone.
others == <<machine, procfs, links, euid, execs, pc, op, argv, interactive,
            need_sudo, call_args, log, launched, child, result>>

call_qemu_arch(self) ==
    /\ pc = "idle"
    /\ ret' = IF qemu_arch(self) = ValueError
              THEN Raise("qemu_arch", self, ValueError)
              ELSE Return("qemu_arch", self, qemu_arch(self))
    /\ UNCHANGED others

call_qemu_bin(self) ==
    /\ pc = "idle"
    /\ ret' = IF qemu_bin(self) = ValueError
              THEN Raise("qemu_bin", self, ValueError)
              ELSE Return("qemu_bin", self, qemu_bin(self))
    /\ UNCHANGED others

call_match_current_arch ==
    /\ pc = "idle"
    /\ ret' = Return("match_current_arch", machine, match_current_arch(machine))
    /\ UNCHANGED others

call_standard_sysroot(self) ==
    /\ pc = "idle"
    /\ ret' = Return("standard_sysroot", self, standard_sysroot(self))
    /\ UNCHANGED others

NextArch ==
    \/ \E self \in Architecture : call_qemu_arch(self)
    \/ \E self \in Architecture : call_qemu_bin(self)
    \/ call_match_current_arch
    \/ \E self \in Architecture : call_standard_sysroot(self)

SpecArch == InitArch /\ [][NextArch]_vars

(***************************************************************************)
(* Specification of the availability check                                 *)
(***************************************************************************)
InitQemu ==
    /\ machine = ""
    /\ \E t \in Architecture :
          /\ procfs \in ProcfsStates(t)
          /\ links \in LinkStates(t)
    /\ euid = 0
    /\ execs = {}
    /\ pc = "idle"
    /\ op = "none"
    /\ argv = <<>>
    /\ interactive = FALSE
    /\ need_sudo = FALSE
    /\ call_args = <<>>
    /\ log = <<>>
    /\ launched = <<>>
    /\ child = NoChild
    /\ result = NoResult
    /\ ret = NoCall

call_have_qemu(self) ==
    /\ pc = "idle"
    /\ ret' = have_qemu(self)
    /\ UNCHANGED others

NextQemu == \E self \in Architecture : call_have_qemu(self)

SpecQemu == InitQemu /\ [][NextQemu]_vars

(***************************************************************************)
(* privileged_call and regular_call                                        *)
(***************************************************************************)
\* Words of an argument vector, and what a process writes and exits with.
Words == {"ls", "-l"}
Texts == {"", "text\n"}
ExitCodes == {0, 1, 2, 255}
Executables == {"sudo", "ls"}
Uids == {0, 1000}

\* need_sudo inverted: escalation for root only.
need_sudo_inverted(uid) == uid = 0

\* need_sudo = os.geteuid() != 0
need_sudo_of(uid) == uid # 0

\* call_args = ["sudo"] if need_sudo else []; call_args.extend(argv)
build_call_args(need, av) == (IF need THEN <<"sudo">> ELSE <<>>) \o av

\* The returned tuple with the exit code reduced to a success flag.
result_tuple_flag(r) ==
    <<r.stdout, r.stderr, IF r.returncode = 0 THEN 0 ELSE 1>>

\* return result.stdout, result.stderr, result.returncode
result_tuple(r) == <<r.stdout, r.stderr, r.returncode>>

InitCall ==
    /\ machine = ""
    /\ procfs = NoProcfs
    /\ links = {}
    /\ euid \in Uids
    /\ execs \in SUBSET Executables
    /\ pc = "idle"
    /\ op = "none"
    /\ argv = <<>>
    /\ interactive = FALSE
    /\ need_sudo = FALSE
    /\ call_args = <<>>
    /\ log = <<>>
    /\ launched = <<>>
    /\ child = NoChild
    /\ result = NoResult
    /\ ret = NoCall

\* privileged_call up to the construction of call_args.
privileged_call(av, ia) ==
    /\ pc = "idle"
    /\ op' = "privileged_call"
    /\ argv' = av
    /\ interactive' = ia
    /\ need_sudo' = need_sudo_of(euid)
    /\ call_args' = build_call_args(need_sudo', av)
    /\ pc' = "log"
    /\ UNCHANGED <<machine, procfs, links, euid, execs, log, launched, child,
                   result, ret>>

\* if need_sudo: logger.info(f"!!! About to run {call_args}")
disclose ==
    /\ pc = "log"
    /\ log' = IF need_sudo
              THEN Append(log, [level |-> "info", command |-> call_args])
              ELSE log
    /\ pc' = "run"
    /\ UNCHANGED <<machine, procfs, links, euid, execs, op, argv, interactive,
                   need_sudo, call_args, launched, child, result, ret>>

\* regular_call hands argv itself to subprocess.run.
regular_call(av, ia) ==
    /\ pc = "idle"
    /\ op' = "regular_call"
    /\ argv' = av
    /\ interactive' = ia
    /\ call_args' = av
    /\ pc' = "run"
    /\ UNCHANGED <<machine, procfs, links, euid, execs, need_sudo, log,
                   launched, child, result, ret>>

\* subprocess.run(call_args, capture_output=not interactive, text=True).
\* An empty vector raises IndexError and an executable that cannot be found
\* raises FileNotFoundError, both out of the calling function; otherwise
\* the process runs once and its status and (captured) output are reported.
subprocess_run ==
    /\ pc = "run"
    /\ launched' = Append(launched, call_args)
    /\ IF call_args = <<>>
       THEN /\ ret' = Raise(op, argv, "IndexError")
            /\ pc' = "raised"
            /\ UNCHANGED <<child, result>>
       ELSE IF call_args[1] \notin execs
       THEN /\ ret' = Raise(op, argv, "FileNotFoundError")
            /\ pc' = "raised"
            /\ UNCHANGED <<child, result>>
       ELSE /\ \E st \in ExitCodes, o \in Texts, e \in Texts :
                  child' = [status |-> st, out |-> o, err |-> e]
            /\ result' = [stdout |-> IF interactive THEN None ELSE child'.out,
                          stderr |-> IF interactive THEN None ELSE child'.err,
                          returncode |-> child'.status]
            /\ pc' = "return"
            /\ UNCHANGED ret
    /\ UNCHANGED <<machine, procfs, links, euid, execs, op, argv, interactive,
                   need_sudo, call_args, log>>

\* The return statement of either function.
call_return ==
    /\ pc = "return"
    /\ ret' = Return(op, argv, result_tuple(result))
    /\ pc' = "done"
    /\ UNCHANGED <<machine, procfs, links, euid, execs, op, argv, interactive,
                   need_sudo, call_args, log, launched, child, result>>

Argvs == SeqsUpTo(Words, MaxArgv)

NextCall ==
    \/ \E av \in Argvs, ia \in BOOLEAN : privileged_call(av, ia)
    \/ disclose
    \/ \E av \in Argvs, ia \in BOOLEAN : regular_call(av, ia)
    \/ subprocess_run
    \/ call_return

SpecCall == InitCall /\ [][NextCall]_vars

(***************************************************************************)
(* Properties of the Architecture lookups (checked under SpecArch)         *)
(***************************************************************************)
Arm32 == {"ARMV4", "ARMV6HF", "ARMV7HF"}

\* C7 as stated: qemu_arch maps arm64 to aarch64, loongson3 to mips64el,
\* armv4, armv6hf and armv7hf to arm, i486 to i386, and every other variant
\* (amd64, powerpc, ppc64el, riscv64, mips64r6el, m68k, ppc64) to its own
\* canonical name.
C7_IdentityForTheRest ==
    ret.op = "qemu_arch" =>
        /\ ret.kind = "return"
        /\ ret.value =
             CASE ret.self = "ARM64" -> "aarch64"
               [] ret.self = "LOONGSON3" -> "mips64el"
               [] ret.self \in Arm32 -> "arm"
               [] ret.self = "I486" -> "i386"
               [] OTHER -> value(ret.self)

\* C7 amended: qemu_arch maps arm64 to aarch64, loongson3 and mips64r6el to
\* mips64el, powerpc to ppc, ppc64el to ppc64le, armv4, armv6hf and armv7hf
\* to the same value arm, i486 to i386, and only amd64, riscv64, m68k and
\* ppc64 to their own canonical name.
C7_QemuArchTable ==
    ret.op = "qemu_arch" =>
        /\ ret.kind = "return"
        /\ ret.self = "ARM64" => ret.value = "aarch64"
        /\ ret.self \in {"LOONGSON3", "MIPS64R6EL"} => ret.value = "mips64el"
        /\ ret.self = "POWERPC" => ret.value = "ppc"
        /\ ret.self = "PPC64EL" => ret.value = "ppc64le"
        /\ ret.self \in Arm32 => ret.value = "arm"
        /\ ret.self = "I486" => ret.value = "i386"
        /\ ret.self \in {"AMD64", "RISCV64", "M68K", "PPC64"}
              => ret.value = value(ret.self)

\* qemu_arch has been called on powerpc and returned ppc.
C7_Witness ==
    ret.op = "qemu_arch" /\ ret.self = "POWERPC" /\ ret.value = "ppc"

Retro == {"ARMV4", "ARMV6HF", "ARMV7HF", "M68K", "PPC64", "I486"}
Mips == {"LOONGSON3", "MIPS64R6EL"}

\* C8: match_current_arch returns a variant only for the machine strings
\* x86_64, aarch64, riscv64, ppc and ppc64le (amd64, arm64, riscv64, powerpc,
\* ppc64el); for every other machine string, mips64 and the retro ones
\* included, it returns None without raising, so neither a retro nor a MIPS
\* variant is ever returned.
C8_MatchCurrentArch ==
    ret.op = "match_current_arch" =>
        /\ ret.kind = "return"
        /\ machine = "x86_64" => ret.value = "AMD64"
        /\ machine = "aarch64" => ret.value = "ARM64"
        /\ machine = "riscv64" => ret.value = "RISCV64"
        /\ machine = "ppc" => ret.value = "POWERPC"
        /\ machine = "ppc64le" => ret.value = "PPC64EL"
        /\ machine \notin {"x86_64", "aarch64", "riscv64", "ppc", "ppc64le"}
              => ret.value = None
        /\ ret.value \notin Retro \cup Mips

\* match_current_arch has been called on a mips64 host and returned None.
C8_Witness ==
    ret.op = "match_current_arch" /\ machine = "mips64" /\ ret.value = None

\* C9: every variant has an entry in the lookup of qemu_arch, so neither
\* qemu_arch nor qemu_bin ever takes the ValueError branch, and qemu_bin is
\* the characters "qemu-", then qemu_arch(), then "-static", and nothing else.
C9_QemuBinFormat ==
    /\ \A a \in Architecture : qemu_arch(a) # ValueError
    /\ ret.op \in {"qemu_arch", "qemu_bin"} => ret.kind = "return"
    /\ ret.op = "qemu_bin" =>
          LET v == ret.value
              arch == qemu_arch(ret.self)
          IN  /\ Len(v) = 5 + Len(arch) + 7
              /\ SubSeq(v, 1, 5) = "qemu-"
              /\ SubSeq(v, 6, 5 + Len(arch)) = arch
              /\ SubSeq(v, 6 + Len(arch), Len(v)) = "-static"

\* qemu_bin has been called on arm64 and returned qemu-aarch64-static.
C9_Witness ==
    ret.op = "qemu_bin" /\ ret.self = "ARM64"
        /\ ret.kind = "return" /\ ret.value = "qemu-aarch64-static"

(***************************************************************************)
(* Properties of have_qemu (checked under SpecQemu)                        *)
(***************************************************************************)
HaveQemuCalled == ret.op = "have_qemu"

EndsWith(s, t) == Len(s) >= Len(t) /\ SubSeq(s, Len(s) - Len(t) + 1, Len(s)) = t
StartsWith(s, t) == Len(s) >= Len(t) /\ SubSeq(s, 1, Len(t)) = t

\* A line without its terminator.
LineText(l) == IF EndsWith(l, "\n") THEN SubSeq(l, 1, Len(l) - 1) ELSE l

\* The file of ret.self opens; its line 1 is `enabled`; its line 2 is
\* `interpreter P`; the P of line 2.
FileOpens == can_open(binfmt_reg_name(ret.self))
Line1Enabled ==
    /\ FileOpens
    /\ Len(procfs.lines) >= 1
    /\ strip(procfs.lines[1]) = "enabled"
Line2Interpreter ==
    /\ FileOpens
    /\ Len(procfs.lines) >= 2
    /\ StartsWith(procfs.lines[2], InterpPrefix)
RegisteredPath ==
    LET t == LineText(procfs.lines[2])
    IN  SubSeq(t, Len(InterpPrefix) + 1, Len(t))
Line2Matches ==
    /\ Line2Interpreter
    /\ match_interp(qemu_bin(ret.self), procfs.lines[2]) # NoMatch
ResolvedNameDiffers ==
    name(resolve(match_interp(qemu_bin(ret.self), procfs.lines[2])))
        # qemu_bin(ret.self)

\* C1: have_qemu never raises: whatever the registration file holds (missing,
\* unreadable, no line, one line, any lines) the call ends by returning a
\* path or None.
C1_NeverRaises == HaveQemuCalled => ret.kind = "return"

\* C2: have_qemu returns None when (a) the file cannot be opened, (b) it
\* opens but line 1 is not `enabled`, (c) line 1 is `enabled` but line 2 does
\* not match the interpreter pattern, (d) line 2 matches but the final
\* component of the resolved path differs from qemu_bin(); and it returns a
\* path only when none of (a)-(d) holds.
C2_UnavailableCases ==
    HaveQemuCalled =>
        LET a == ~FileOpens
            b == FileOpens /\ ~Line1Enabled
            c == Line1Enabled /\ ~Line2Matches
            d == Line1Enabled /\ Line2Matches /\ ResolvedNameDiffers
        IN  IF a \/ b \/ c \/ d
            THEN ret.kind = "return" /\ ret.value = None
            ELSE ret.kind = "return" /\ ret.value # None

\* C3: when have_qemu succeeds on a registration whose line 1 is `enabled`
\* and whose line 2 is `interpreter P`, P ending with qemu_bin(), the value
\* returned is resolve(P), the path with its symbolic links followed.
C3_ReturnsResolvedPath ==
    (/\ HaveQemuCalled
     /\ ret.kind = "return"
     /\ ret.value # None
     /\ Line1Enabled
     /\ Line2Interpreter
     /\ EndsWith(RegisteredPath, qemu_bin(ret.self)))
        => ret.value = resolve(RegisteredPath)

\* C10: on a registration whose line 1 is `enabled` and whose line 2 is
\* `interpreter P`, have_qemu returns None when P does not end with
\* qemu_bin(), and a path it returns is the whole of P.
C10_PathEndsWithBinary ==
    (HaveQemuCalled /\ Line1Enabled /\ Line2Interpreter) =>
        /\ ret.kind = "return"
        /\ ~EndsWith(RegisteredPath, qemu_bin(ret.self)) => ret.value = None
        /\ ret.value # None => ret.value = RegisteredPath

(***************************************************************************)
(* Properties of the process helpers (checked under SpecCall)              *)
(***************************************************************************)
Disclosed(command) ==
    \E i \in 1..Len(log) : log[i].level = "info" /\ log[i].command = command

\* What C4 says of each state of a privileged_call.
C4_Launch ==
    op = "privileged_call" =>
        /\ euid = 0 => log = <<>>
        /\ launched # <<>> =>
              IF euid # 0
              THEN launched[1] = <<"sudo">> \o argv /\ Disclosed(launched[1])
              ELSE launched[1] = argv

\* C4: in privileged_call with a non-root effective UID the vector handed to
\* the launcher is ["sudo"] followed by argv and the info record disclosing
\* that vector is in the log before the step that launches; with effective
\* UID 0 the vector is argv itself and nothing is logged.
C4_DisclosedBeforeLaunch ==
    /\ []C4_Launch
    /\ [][(op = "privileged_call" /\ euid # 0 /\ launched' # launched)
              => Disclosed(<<"sudo">> \o argv)]_vars

\* A non-root privileged_call has logged and launched sudo + argv and returned.
C4_Witness ==
    /\ op = "privileged_call"
    /\ euid # 0
    /\ pc = "done"
    /\ argv = <<"ls", "-l">>
    /\ launched = <<(<<"sudo", "ls", "-l">>)>>
    /\ Len(log) = 1

\* C5: regular_call and privileged_call hand a vector to the launcher once
\* per call and never again, whatever the exit status; the third element
\* returned is the exit status of the child, and when not interactive the
\* first two are what the child wrote to stdout and stderr.
C5_OneShotVerbatim ==
    /\ Len(launched) <= 1
    /\ pc \in {"return", "done", "raised"} => Len(launched) = 1
    /\ pc = "done" =>
          /\ ret.kind = "return"
          /\ ret.value[3] = child.status
          /\ ~interactive =>
                ret.value[1] = child.out /\ ret.value[2] = child.err

\* A non-interactive call whose child wrote to stdout and exited with 2 has
\* returned.
C5_Witness ==
    /\ pc = "done"
    /\ ~interactive
    /\ child.status = 2
    /\ ret.value = <<"text\n", "", 2>>
    /\ Len(launched) = 1

\* C6: when the executable of the vector handed to the launcher cannot be
\* found, the call does not raise: it goes on to return a (stdout, stderr,
\* exit code) value.
C6_LaunchFailureReturned ==
    (launched # <<>> /\ launched[1] # <<>> /\ launched[1][1] \notin execs) =>
        /\ ret.kind # "raise"
        /\ pc \in {"return", "done"}

====
